---- MODULE Spec2Model ----
(***************************************************************************)
(* Model of the text utilities of misc.go: escape / unescape / tokenize,   *)
(* readArrays / readPairs, naturalLess and the display-width slicers.      *)
(* Strings and rune slices are sequences of code points.                   *)
(***************************************************************************)
EXTENDS Integers, Sequences, FiniteSets, TLC

VARIABLES pc,
          s, escaped, unescaped, toks,
          stream, min_cols, max_cols, scanned, arrays, ret,
          s1, s2, s3, less,
          rs, beg, end, maxWidth, width, out

textVars  == <<s, escaped, unescaped, toks>>
readVars  == <<stream, min_cols, max_cols, scanned, arrays, ret>>
natVars   == <<s1, s2, s3, less>>
widthVars == <<rs, beg, end, maxWidth, width, out>>
vars      == <<pc, textVars, readVars, natVars, widthVars>>

(* ---------------- bounds ---------------- *)
MaxStrLen == 3

(* ---------------- code points ---------------- *)
TAB    == 9
SPACE  == 32
DQUOTE == 34
HASH   == 35
SQUOTE == 39
SEMI   == 59
BSLASH == 92
CHA    == 97
CHB    == 98

\* unicode.IsSpace on the code points below U+0100
IsSpace(r) == r \in {9, 10, 11, 12, 13, 32, 133, 160}

Strs(alphabet, n) == UNION {[1..k -> alphabet] : k \in 0..n}

RECURSIVE Concat(_)
Concat(ss) == IF ss = <<>> THEN <<>> ELSE Head(ss) \o Concat(Tail(ss))

(* ---------------- escape / unescape / tokenize ---------------- *)
escapeSpecial(r) == IsSpace(r) \/ r = BSLASH \/ r = SEMI \/ r = HASH

RECURSIVE escapeLoop(_, _, _)
escapeLoop(str, i, buf) ==
    IF i > Len(str) THEN buf
    ELSE LET r == str[i] IN
         escapeLoop(str, i + 1,
                    IF escapeSpecial(r) THEN buf \o <<BSLASH, r>>
                                        ELSE Append(buf, r))

escape(str) == escapeLoop(str, 1, <<>>)

unescapeSpecialMut(r) == IsSpace(r) \/ r = BSLASH \/ r = HASH

unescapeSpecial(r) == IsSpace(r) \/ r = BSLASH \/ r = SEMI \/ r = HASH

RECURSIVE unescapeLoop(_, _, _, _)
unescapeLoop(str, i, esc, buf) ==
    IF i > Len(str) THEN (IF esc THEN Append(buf, BSLASH) ELSE buf)
    ELSE LET r == str[i] IN
         IF esc
         THEN unescapeLoop(str, i + 1, FALSE,
                           IF ~unescapeSpecial(r) THEN buf \o <<BSLASH, r>>
                                                  ELSE Append(buf, r))
         ELSE IF r = BSLASH
              THEN unescapeLoop(str, i + 1, TRUE, buf)
              ELSE unescapeLoop(str, i + 1, FALSE, Append(buf, r))

unescape(str) == unescapeLoop(str, 1, FALSE, <<>>)

RECURSIVE tokenizeLoop(_, _, _, _, _)
tokenizeLoop(str, i, esc, buf, tk) ==
    IF i > Len(str) THEN Append(tk, buf)
    ELSE LET r == str[i] IN
         IF r = BSLASH
         THEN tokenizeLoop(str, i + 1, TRUE, Append(buf, r), tk)
         ELSE IF esc
              THEN tokenizeLoop(str, i + 1, FALSE, Append(buf, r), tk)
              ELSE IF ~IsSpace(r)
                   THEN tokenizeLoop(str, i + 1, esc, Append(buf, r), tk)
                   ELSE tokenizeLoop(str, i + 1, esc, <<>>, Append(tk, buf))

tokenize(str) == tokenizeLoop(str, 1, FALSE, <<>>, <<>>)

TextAlphabet == {CHA, SPACE, TAB, BSLASH, SEMI, HASH}
TextInputs == Strs(TextAlphabet, MaxStrLen) \cup {<<CHA, SPACE, SPACE, CHB>>}

IdleText  == s = <<>> /\ escaped = <<>> /\ unescaped = <<>> /\ toks = <<>>
IdleRead  == /\ stream = <<>> /\ min_cols = 0 /\ max_cols = 0
             /\ scanned = 0 /\ arrays = <<>> /\ ret = <<>>
IdleNat   == s1 = <<>> /\ s2 = <<>> /\ s3 = <<>> /\ less = <<>>
IdleWidth == /\ rs = <<>> /\ beg = 0 /\ end = 0 /\ maxWidth = 0
             /\ width = 0 /\ out = <<>>

InitText ==
    /\ pc = "start"
    /\ s \in TextInputs
    /\ escaped = <<>> /\ unescaped = <<>> /\ toks = <<>>
    /\ IdleRead /\ IdleNat /\ IdleWidth

Escape ==
    /\ pc = "start"
    /\ escaped' = escape(s)
    /\ pc' = "escaped"
    /\ UNCHANGED <<s, unescaped, toks, readVars, natVars, widthVars>>

Unescape ==
    /\ pc = "escaped"
    /\ unescaped' = unescape(escaped)
    /\ pc' = "unescaped"
    /\ UNCHANGED <<s, escaped, toks, readVars, natVars, widthVars>>

Tokenize ==
    /\ pc = "start"
    /\ toks' = tokenize(s)
    /\ pc' = "tokenized"
    /\ UNCHANGED <<s, escaped, unescaped, readVars, natVars, widthVars>>

NextText == Escape \/ Unescape \/ Tokenize

SpecText == InitText /\ [][NextText]_vars

\* the character at position i is made literal by an unescaped backslash
RECURSIVE IsEscapedAt(_, _)
IsEscapedAt(str, i) ==
    i > 1 /\ str[i - 1] = BSLASH /\ ~IsEscapedAt(str, i - 1)

EndsInUnescapedBackslash(str) ==
    str # <<>> /\ str[Len(str)] = BSLASH /\ ~IsEscapedAt(str, Len(str))

\* C1: for every string s that does not end in an unescaped backslash,
\* unescape(escape(s)) equals s.
C1_RoundTrip ==
    (pc = "unescaped" /\ ~EndsInUnescapedBackslash(s)) => unescaped = s

C1_Witness ==
    /\ pc = "unescaped"
    /\ ~EndsInUnescapedBackslash(s)
    /\ \E i \in 1..Len(s) : s[i] = BSLASH
    /\ \E i \in 1..Len(s) : s[i] = SEMI
    /\ \E i \in 1..Len(s) : IsSpace(s[i])
    /\ Len(escaped) = 2 * Len(s)
    /\ unescaped = s

\* the positions of str that hold whitespace not escaped under the
\* convention of unescape
UnescapedSpaces(str) ==
    {i \in 1..Len(str) : IsSpace(str[i]) /\ ~IsEscapedAt(str, i)}

RECURSIVE DropAt(_, _, _)
DropAt(str, i, drop) ==
    IF i > Len(str) THEN <<>>
    ELSE (IF i \in drop THEN <<>> ELSE <<str[i]>>) \o DropAt(str, i + 1, drop)

\* C8: tokenize follows the escaping convention of unescape: it returns
\* 1 + (number of unescaped whitespace characters) tokens, and the tokens in
\* order hold every other character of s verbatim.
C8_TokenizeConvention ==
    pc = "tokenized" =>
        /\ Len(toks) = 1 + Cardinality(UnescapedSpaces(s))
        /\ Concat(toks) = DropAt(s, 1, UnescapedSpaces(s))
        /\ (s = <<>> => toks = << <<>> >>)
        /\ (s = <<CHA, SPACE, SPACE, CHB>> => toks = << <<CHA>>, <<>>, <<CHB>> >>)

(* ---------------- readArrays / readPairs ---------------- *)
MaxLineLen == 3
MaxLines == 2
MaxCols == 2

\* one step of the quote toggles shared by the three scans of readArrays:
\* q = <<squote, dquote>>
toggleQuotes(q, r) ==
    IF r = SQUOTE /\ ~q[2] THEN <<~q[1], q[2]>>
    ELSE IF r = DQUOTE /\ ~q[1] THEN <<q[1], ~q[2]>>
    ELSE q

\* the comment scan: the line cut at the first '#' met with no quote active
RECURSIVE stripCommentLoop(_, _, _)
stripCommentLoop(line, i, q) ==
    IF i > Len(line) THEN line
    ELSE LET q2 == toggleQuotes(q, line[i]) IN
         IF ~q2[1] /\ ~q2[2] /\ line[i] = HASH
         THEN SubSeq(line, 1, i - 1)
         ELSE stripCommentLoop(line, i + 1, q2)

\* cuts at the first '#' whether or not a quote is active
stripCommentMut(line) ==
    LET hs == {i \in 1..Len(line) : line[i] = HASH}
    IN IF hs = {} THEN line
       ELSE SubSeq(line, 1, (CHOOSE i \in hs : \A j \in hs : i <= j) - 1)

stripComment(line) == stripCommentLoop(line, 1, <<FALSE, FALSE>>)

\* strings.TrimSpace
RECURSIVE TrimLeft(_)
TrimLeft(line) ==
    IF line # <<>> /\ IsSpace(Head(line)) THEN TrimLeft(Tail(line)) ELSE line

RECURSIVE TrimRight(_)
TrimRight(line) ==
    IF line # <<>> /\ IsSpace(line[Len(line)])
    THEN TrimRight(SubSeq(line, 1, Len(line) - 1)) ELSE line

TrimSpace(line) == TrimRight(TrimLeft(line))

\* strings.FieldsFunc with the stateful predicate of readArrays: the predicate
\* is called once per character, left to right; start = 0 means no span open
splitPredicate(q2, r) == ~q2[1] /\ ~q2[2] /\ IsSpace(r)

RECURSIVE fieldsLoop(_, _, _, _, _)
fieldsLoop(line, i, q, start, arr) ==
    IF i > Len(line)
    THEN (IF start > 0 THEN Append(arr, SubSeq(line, start, Len(line))) ELSE arr)
    ELSE LET q2 == toggleQuotes(q, line[i]) IN
         IF splitPredicate(q2, line[i])
         THEN (IF start > 0
               THEN fieldsLoop(line, i + 1, q2, 0,
                               Append(arr, SubSeq(line, start, i - 1)))
               ELSE fieldsLoop(line, i + 1, q2, 0, arr))
         ELSE fieldsLoop(line, i + 1, q2, IF start > 0 THEN start ELSE i, arr)

splitFields(line) == fieldsLoop(line, 1, <<FALSE, FALSE>>, 0, <<>>)

\* the quote-removal scan of one candidate field
RECURSIVE stripQuotesLoop(_, _, _, _)
stripQuotesLoop(field, i, q, buf) ==
    IF i > Len(field) THEN buf
    ELSE LET r == field[i] IN
         IF r = SQUOTE /\ ~q[2]
         THEN stripQuotesLoop(field, i + 1, <<~q[1], q[2]>>, buf)
         ELSE IF r = DQUOTE /\ ~q[1]
              THEN stripQuotesLoop(field, i + 1, <<q[1], ~q[2]>>, buf)
              ELSE stripQuotesLoop(field, i + 1, q, Append(buf, r))

\* drops every quote character
stripQuotesMut(field) == SelectSeq(field, LAMBDA r : r # SQUOTE /\ r # DQUOTE)

stripQuotes(field) == stripQuotesLoop(field, 1, <<FALSE, FALSE>>, <<>>)

columnsOutOfRangeMut(n, mn, mx) == n < mn

columnsOutOfRange(n, mn, mx) == n < mn \/ n > mx

\* fmt.Errorf of the two messages of readArrays: the format, its integer
\* arguments and its string argument
NoError == [fmt |-> "", ints |-> <<>>, text |-> <<>>]

columnError(mn, mx, text) ==
    IF mn = mx
    THEN [fmt |-> "expected %d columns but found: %s", ints |-> <<mn>>, text |-> text]
    ELSE [fmt |-> "expected %d~%d columns but found: %s", ints |-> <<mn, mx>>,
          text |-> text]

NotReturned == [arrays |-> <<>>, err |-> NoError, done |-> FALSE]

ReadAlphabet == {CHA, SPACE, HASH, SQUOTE, DQUOTE}

\* lines the enumeration is too short for
LongLines ==
    { <<CHA, SPACE, CHA, SPACE, CHA>>,
      <<SQUOTE, CHA, SPACE, CHA, SQUOTE, SPACE, CHA>>,
      <<CHA, SPACE, HASH, SPACE, CHA>>,
      <<SQUOTE, CHA, HASH, SQUOTE, SPACE, CHA>>,
      <<DQUOTE, SQUOTE, DQUOTE, SPACE, SQUOTE, SQUOTE>>,
      <<SPACE, CHA, SPACE, SPACE, CHA, SPACE>> }

\* lines that may precede the last line of a stream
EarlierLines ==
    { <<>>, <<HASH, CHA>>, <<CHA, SPACE, CHA>>, <<CHA>> }

Lines == Strs(ReadAlphabet, MaxLineLen) \cup LongLines

Streams ==
    {<<>>} \cup
    {pre \o <<l>> : pre \in Strs(EarlierLines, MaxLines - 1), l \in Lines}

\* "key1 value1", "key2 'value two'", "# comment", "", "key3 value3"
PairsExample ==
    << <<107, 101, 121, 49, 32, 118, 97, 108, 117, 101, 49>>,
       <<107, 101, 121, 50, 32, 39, 118, 97, 108, 117, 101, 32, 116, 119, 111, 39>>,
       <<35, 32, 99, 111, 109, 109, 101, 110, 116>>,
       <<>>,
       <<107, 101, 121, 51, 32, 118, 97, 108, 117, 101, 51>> >>

InitRead ==
    /\ pc = "idle"
    /\ stream \in Streams \cup {PairsExample}
    /\ min_cols = 0 /\ max_cols = 0
    /\ scanned = 0 /\ arrays = <<>> /\ ret = NotReturned
    /\ IdleText /\ IdleNat /\ IdleWidth

\* a call readArrays(r, min_cols, max_cols)
CallReadArrays ==
    /\ pc = "idle"
    /\ \E mn \in 1..MaxCols : \E mx \in mn..MaxCols :
          min_cols' = mn /\ max_cols' = mx
    /\ pc' = "scan"
    /\ UNCHANGED <<stream, scanned, arrays, ret, textVars, natVars, widthVars>>

\* a call readPairs(r)
CallReadPairs ==
    /\ pc = "idle"
    /\ min_cols' = 2 /\ max_cols' = 2
    /\ pc' = "scan"
    /\ UNCHANGED <<stream, scanned, arrays, ret, textVars, natVars, widthVars>>

\* one iteration of the scan loop on a line that is empty once stripped
ScanSkip ==
    /\ pc = "scan" /\ scanned < Len(stream)
    /\ TrimSpace(stripComment(stream[scanned + 1])) = <<>>
    /\ scanned' = scanned + 1
    /\ UNCHANGED <<pc, stream, min_cols, max_cols, arrays, ret,
                   textVars, natVars, widthVars>>

\* one iteration of the scan loop on a line with a wrong number of columns
ScanFail ==
    /\ pc = "scan" /\ scanned < Len(stream)
    /\ LET text == stream[scanned + 1]
           line == TrimSpace(stripComment(text))
           arr  == splitFields(line)
       IN /\ line # <<>>
          /\ columnsOutOfRange(Len(arr), min_cols, max_cols)
          /\ ret' = [arrays |-> <<>>,
                     err |-> columnError(min_cols, max_cols, text),
                     done |-> TRUE]
    /\ scanned' = scanned + 1
    /\ pc' = "returned"
    /\ UNCHANGED <<stream, min_cols, max_cols, arrays, textVars, natVars, widthVars>>

\* one iteration of the scan loop on a line that yields a row
ScanAppend ==
    /\ pc = "scan" /\ scanned < Len(stream)
    /\ LET line == TrimSpace(stripComment(stream[scanned + 1]))
           arr  == splitFields(line)
       IN /\ line # <<>>
          /\ ~columnsOutOfRange(Len(arr), min_cols, max_cols)
          /\ arrays' = Append(arrays, [i \in 1..Len(arr) |-> stripQuotes(arr[i])])
    /\ scanned' = scanned + 1
    /\ UNCHANGED <<pc, stream, min_cols, max_cols, ret, textVars, natVars, widthVars>>

\* the scanner is exhausted: return arrays, nil
ReturnArrays ==
    /\ pc = "scan" /\ scanned = Len(stream)
    /\ ret' = [arrays |-> arrays, err |-> NoError, done |-> TRUE]
    /\ pc' = "returned"
    /\ UNCHANGED <<stream, min_cols, max_cols, scanned, arrays,
                   textVars, natVars, widthVars>>

NextRead ==
    CallReadArrays \/ CallReadPairs \/ ScanSkip \/ ScanFail \/ ScanAppend
    \/ ReturnArrays

SpecRead == InitRead /\ [][NextRead]_vars

(* ---- reference reading of one line, by positions ---- *)
RECURSIVE SortedSeq(_)
SortedSeq(S) ==
    IF S = {} THEN <<>>
    ELSE LET m == CHOOSE x \in S : \A y \in S : x <= y
         IN <<m>> \o SortedSeq(S \ {m})

\* which quote kind is active after the first i characters of line
RECURSIVE Mode(_, _)
Mode(line, i) ==
    IF i = 0 THEN "none"
    ELSE LET m == Mode(line, i - 1)
             r == line[i]
         IN CASE m = "none"   /\ r = SQUOTE -> "single"
              [] m = "none"   /\ r = DQUOTE -> "double"
              [] m = "single" /\ r = SQUOTE -> "none"
              [] m = "double" /\ r = DQUOTE -> "none"
              [] OTHER -> m

\* the line without its comment and surrounding whitespace
RefContent(text) ==
    LET hs   == {i \in 1..Len(text) : text[i] = HASH /\ Mode(text, i - 1) = "none"}
        cut  == IF hs = {} THEN Len(text) + 1 ELSE SortedSeq(hs)[1]
        keep == {i \in 1..(cut - 1) : ~IsSpace(text[i])}
    IN IF keep = {} THEN <<>>
       ELSE LET ks == SortedSeq(keep) IN SubSeq(text, ks[1], ks[Len(ks)])

IsSeparator(line, i) == IsSpace(line[i]) /\ Mode(line, i - 1) = "none"

\* the candidate fields: the maximal stretches of line free of separators
RefBlocks(line) ==
    LET n      == Len(line)
        starts == {i \in 1..n : ~IsSeparator(line, i)
                                /\ (i = 1 \/ IsSeparator(line, i - 1))}
        ends   == {i \in 1..n : ~IsSeparator(line, i)
                                /\ (i = n \/ IsSeparator(line, i + 1))}
        ss     == SortedSeq(starts)
        es     == SortedSeq(ends)
    IN [k \in 1..Len(ss) |-> SubSeq(line, ss[k], es[k])]

\* the quote characters of str that open or close a quote
TogglingQuotes(str) ==
    {i \in 1..Len(str) :
        \/ str[i] = SQUOTE /\ Mode(str, i - 1) # "double"
        \/ str[i] = DQUOTE /\ Mode(str, i - 1) # "single"}

\* the indices of the lines of the stream that have content
ContentLines == SortedSeq({i \in 1..Len(stream) : RefContent(stream[i]) # <<>>})

\* the indices of the lines whose number of candidate fields is out of range
BadLines ==
    {i \in 1..Len(stream) :
        /\ RefContent(stream[i]) # <<>>
        /\ LET n == Len(RefBlocks(RefContent(stream[i])))
           IN n < min_cols \/ n > max_cols}

\* C2: readArrays is fail-fast: a line with content and a number of candidate
\* fields outside min_cols..max_cols makes the call return an error and no
\* rows, the error carrying the expected bound (one value when min_cols equals
\* max_cols, else both) and the line as read; otherwise there is no error and
\* every row has between min_cols and max_cols fields.
C2_FailFast ==
    pc = "returned" =>
        IF BadLines # {}
        THEN /\ ret.arrays = <<>>
             /\ ret.err # NoError
             /\ ret.err.ints = (IF min_cols = max_cols THEN <<min_cols>>
                                ELSE <<min_cols, max_cols>>)
             /\ ret.err.text = stream[SortedSeq(BadLines)[1]]
        ELSE /\ ret.err = NoError
             /\ \A k \in 1..Len(ret.arrays) :
                   min_cols <= Len(ret.arrays[k]) /\ Len(ret.arrays[k]) <= max_cols

C2_Witness ==
    /\ pc = "returned"
    /\ ret.err # NoError
    /\ ret.arrays = <<>>
    /\ arrays # <<>>
    /\ \E i \in 1..Len(ret.err.text) : ret.err.text[i] = HASH
    /\ min_cols = max_cols

C2_WitnessRange ==
    /\ pc = "returned"
    /\ ret.err # NoError
    /\ Len(ret.err.ints) = 2
    /\ ret.err.text = <<CHA, SPACE, CHA, SPACE, CHA>>

\* C3: when every line passes the column check, readArrays returns one row
\* per line that has content once the comment (from the first '#' outside any
\* quote) and the surrounding whitespace are removed, in input order; blank
\* and comment-only lines give no row, a '#' inside a quote stays in its
\* field, and readPairs on the five example lines gives the three rows.
C3_RowsPerLine ==
    (pc = "returned" /\ ret.err = NoError) =>
        /\ Len(ret.arrays) = Len(ContentLines)
        /\ \A k \in 1..Len(ret.arrays) :
              LET line == RefContent(stream[ContentLines[k]])
              IN Concat(ret.arrays[k]) =
                    DropAt(line, 1, TogglingQuotes(line)
                                    \cup {i \in 1..Len(line) : IsSeparator(line, i)})
        /\ (stream = PairsExample /\ min_cols = 2 /\ max_cols = 2) =>
              ret.arrays =
                << << <<107, 101, 121, 49>>, <<118, 97, 108, 117, 101, 49>> >>,
                   << <<107, 101, 121, 50>>,
                      <<118, 97, 108, 117, 101, 32, 116, 119, 111>> >>,
                   << <<107, 101, 121, 51>>, <<118, 97, 108, 117, 101, 51>> >> >>

C3_Witness ==
    /\ pc = "returned" /\ ret.err = NoError
    /\ Len(stream) = 2
    /\ Len(ret.arrays) = 1
    /\ \E j \in 1..Len(ret.arrays[1]) : \E i \in 1..Len(ret.arrays[1][j]) :
          ret.arrays[1][j][i] = HASH

C3_WitnessPairs ==
    /\ pc = "returned" /\ ret.err = NoError
    /\ stream = PairsExample
    /\ Len(ret.arrays) = 3

\* C9: the fields of a row are the stretches of the trimmed line between the
\* whitespace met outside quotes, each stripped, with a quote state of its
\* own, of exactly the quote characters that toggle that state; whitespace in
\* a field was inside a quote, and a field that is only a quote pair gives an
\* empty string that still counts as a column.
C9_SplitThenStrip ==
    (pc = "returned" /\ ret.err = NoError) =>
        \A k \in 1..Len(ret.arrays) :
            k <= Len(ContentLines) =>
            LET blocks == RefBlocks(RefContent(stream[ContentLines[k]]))
                row    == ret.arrays[k]
            IN /\ Len(row) = Len(blocks)
               /\ \A j \in 1..Len(row) :
                     /\ row[j] = DropAt(blocks[j], 1, TogglingQuotes(blocks[j]))
                     /\ \A i \in 1..Len(blocks[j]) :
                           IsSpace(blocks[j][i]) => Mode(blocks[j], i - 1) # "none"
                     /\ (blocks[j] \in {<<SQUOTE, SQUOTE>>, <<DQUOTE, DQUOTE>>}
                            => row[j] = <<>>)

C9_Witness ==
    /\ pc = "returned" /\ ret.err = NoError
    /\ \E k \in 1..Len(ret.arrays) :
          /\ Len(ret.arrays[k]) = 2
          /\ ret.arrays[k][1] = <<SQUOTE>>
          /\ ret.arrays[k][2] = <<>>

C9_WitnessSpace ==
    /\ pc = "returned" /\ ret.err = NoError
    /\ \E k \in 1..Len(ret.arrays) : \E j \in 1..Len(ret.arrays[k]) :
          \E i \in 1..Len(ret.arrays[k][j]) : IsSpace(ret.arrays[k][j][i])

(* ---------------- naturalLess ---------------- *)
MaxNatLen == 3
MaxOrdLen == 2

CH0   == 48
CH9   == 57
MINUS == 45

isDigit(b) == CH0 <= b /\ b <= CH9

\* Go's < on strings: byte-wise lexicographic
RECURSIVE stringLess(_, _, _)
stringLess(a, b, i) ==
    IF i > Len(a) THEN i <= Len(b)
    ELSE IF i > Len(b) THEN FALSE
    ELSE IF a[i] # b[i] THEN a[i] < b[i]
    ELSE stringLess(a, b, i + 1)

RECURSIVE StripZeros(_)
StripZeros(ds) ==
    IF ds # <<>> /\ Head(ds) = CH0 THEN StripZeros(Tail(ds)) ELSE ds

\* the digits of 9223372036854775807, the largest 64-bit int
MaxIntDigits ==
    <<57, 50, 50, 51, 51, 55, 50, 48, 51, 54, 56, 53, 52, 55, 55, 53, 56, 48, 55>>

\* a number held as its digits without leading zeros
numLess(n1, n2) ==
    Len(n1) < Len(n2) \/ (Len(n1) = Len(n2) /\ stringLess(n1, n2, 1))

\* strconv.Atoi on a run of digits with a 64-bit int: the value, and an error
\* when the value does not fit
Atoi(ds) ==
    LET n == StripZeros(ds)
    IN [num |-> n, err |-> numLess(MaxIntDigits, n)]

\* the end of the run of s that starts after offset hi and has digit class d
RECURSIVE runEnd(_, _, _)
runEnd(str, hi, d) ==
    IF hi < Len(str) /\ isDigit(str[hi + 1]) = d THEN runEnd(str, hi + 1, d)
    ELSE hi

\* the result when s1 is exhausted at the top of the loop
exhausted(a, b, hi2) == hi2 # Len(b)

runsLessMut(run1, run2, d1, d2) == stringLess(run1, run2, 1)

\* the comparison of two runs that differ
runsLess(run1, run2, d1, d2) ==
    IF d1 /\ d2 /\ ~Atoi(run1).err /\ ~Atoi(run2).err
    THEN numLess(Atoi(run1).num, Atoi(run2).num)
    ELSE stringLess(run1, run2, 1)

RECURSIVE naturalLessLoop(_, _, _, _)
naturalLessLoop(a, b, hi1, hi2) ==
    IF hi1 >= Len(a) THEN exhausted(a, b, hi2)
    ELSE IF hi2 >= Len(b) THEN FALSE
    ELSE LET isDigit1 == isDigit(a[hi1 + 1])
             isDigit2 == isDigit(b[hi2 + 1])
             e1   == runEnd(a, hi1, isDigit1)
             e2   == runEnd(b, hi2, isDigit2)
             run1 == SubSeq(a, hi1 + 1, e1)
             run2 == SubSeq(b, hi2 + 1, e2)
         IN IF run1 = run2 THEN naturalLessLoop(a, b, e1, e2)
            ELSE runsLess(run1, run2, isDigit1, isDigit2)

naturalLess(a, b) == naturalLessLoop(a, b, 0, 0)

NatAlphabet == {MINUS, CH0, CH0 + 1, CHA}

\* 9223372036854775807, 9223372036854775808 and 10000000000000000000
LongNumbers ==
    { MaxIntDigits,
      <<57, 50, 50, 51, 51, 55, 50, 48, 51, 54, 56, 53, 52, 55, 55, 53, 56, 48, 56>>,
      <<49, 48, 48, 48, 48, 48, 48, 48, 48, 48, 48, 48, 48, 48, 48, 48, 48, 48, 48, 48>> }

Img2     == <<105, 109, 103, 50>>
Img10    == <<105, 109, 103, 49, 48>>
Bar2bar  == <<98, 97, 114, 50, 98, 97, 114>>
Foo10bar == <<102, 111, 111, 49, 48, 98, 97, 114>>

NatExamples == {Img2, Img10, Bar2bar, Foo10bar, <<CH0 + 2>>, <<CH0 + 1, CH0>>}

NatInputs == Strs(NatAlphabet, MaxNatLen) \cup LongNumbers \cup NatExamples

InitNat ==
    /\ pc = "start"
    /\ s1 \in NatInputs /\ s2 \in NatInputs
    /\ s3 = <<>> /\ less = <<>>
    /\ IdleText /\ IdleRead /\ IdleWidth

NaturalLess ==
    /\ pc = "start"
    /\ less' = <<naturalLess(s1, s2)>>
    /\ pc' = "compared"
    /\ UNCHANGED <<s1, s2, s3, textVars, readVars, widthVars>>

NextNat == NaturalLess

SpecNat == InitNat /\ [][NextNat]_vars

\* the comparisons a sort makes of three strings, in a fixed order:
\* (s1,s1) (s1,s2) (s2,s1) (s2,s3) (s1,s3)
Schedule == << <<1, 1>>, <<1, 2>>, <<2, 1>>, <<2, 3>>, <<1, 3>> >>

OrdInputs == Strs(NatAlphabet, MaxOrdLen) \cup LongNumbers \cup NatExamples

InitOrder ==
    /\ pc = "comparing"
    /\ s1 \in OrdInputs /\ s2 \in OrdInputs /\ s3 \in OrdInputs
    /\ less = <<>>
    /\ IdleText /\ IdleRead /\ IdleWidth

CompareNext ==
    /\ pc = "comparing"
    /\ LET k   == Len(less) + 1
           arg == <<s1, s2, s3>>
       IN /\ less' = Append(less, naturalLess(arg[Schedule[k][1]], arg[Schedule[k][2]]))
          /\ pc' = IF k = Len(Schedule) THEN "compared" ELSE "comparing"
    /\ UNCHANGED <<s1, s2, s3, textVars, readVars, widthVars>>

NextOrder == CompareNext

SpecOrder == InitOrder /\ [][NextOrder]_vars

(* ---- reference comparison on run lists ---- *)
\* the maximal digit / non-digit runs of str, in order
RefRuns(str) ==
    LET n      == Len(str)
        starts == {i \in 1..n : i = 1 \/ isDigit(str[i]) # isDigit(str[i - 1])}
        ss     == SortedSeq(starts)
    IN [k \in 1..Len(ss) |->
           SubSeq(str, ss[k], IF k = Len(ss) THEN n ELSE ss[k + 1] - 1)]

IsDigitRun(run) == \A i \in 1..Len(run) : isDigit(run[i])

Parses(run) ==
    LET n == StripZeros(run)
    IN Len(n) < Len(MaxIntDigits)
       \/ (Len(n) = Len(MaxIntDigits)
           /\ ~\E k \in 1..Len(n) :
                  /\ n[k] > MaxIntDigits[k]
                  /\ \A j \in 1..(k - 1) : n[j] = MaxIntDigits[j])

\* lexicographic order, by the first position where the strings differ
RefLexLess(a, b) ==
    \E k \in 1..(Len(b)) :
        /\ \A j \in 1..(k - 1) : j <= Len(a) /\ a[j] = b[j]
        /\ (k > Len(a) \/ (k - 1 < Len(a) /\ a[k] < b[k]))

\* numeric order of two digit runs that parse
RefValueLess(r1, r2) ==
    LET n1 == StripZeros(r1)
        n2 == StripZeros(r2)
    IN Len(n1) < Len(n2) \/ (Len(n1) = Len(n2) /\ RefLexLess(n1, n2))

RECURSIVE RefLess(_, _, _)
RefLess(r1, r2, k) ==
    IF k > Len(r1) THEN k <= Len(r2)
    ELSE IF k > Len(r2) THEN FALSE
    ELSE IF r1[k] = r2[k] THEN RefLess(r1, r2, k + 1)
    ELSE IF IsDigitRun(r1[k]) /\ IsDigitRun(r2[k]) /\ Parses(r1[k]) /\ Parses(r2[k])
         THEN RefValueLess(r1[k], r2[k])
         ELSE RefLexLess(r1[k], r2[k])

C10_StrictOrder ==
    pc = "compared" =>
        /\ ~less[1]
        /\ ~(less[2] /\ less[3])
        /\ (less[2] /\ less[4] => less[5])

(* ---------------- display-width slicing ---------------- *)
MaxRunes == 3
MaxCol == 4

COMBINING == 769
WIDE      == 19990

\* runewidth.RuneWidth on the runes of the model: a combining accent takes no
\* column, a CJK ideograph two, a Latin letter one
RuneWidth(r) == IF r = COMBINING THEN 0 ELSE IF r = WIDE THEN 2 ELSE 1

RECURSIVE runeSliceWidth(_)
runeSliceWidth(seq) ==
    IF seq = <<>> THEN 0 ELSE RuneWidth(Head(seq)) + runeSliceWidth(Tail(seq))

\* i, b are the 0-based indices of the code; rs[b:i] is SubSeq(rs, b + 1, i)
RECURSIVE rangeLoop(_, _, _, _, _, _, _)
rangeLoop(seq, bg, en, i, curr, b, foundb) ==
    IF i >= Len(seq) THEN SubSeq(seq, b + 1, Len(seq))
    ELSE LET w  == RuneWidth(seq[i + 1])
             fb == curr >= bg /\ ~foundb
             b2 == IF fb THEN i ELSE b
             f2 == foundb \/ fb
         IN IF curr = en \/ curr + w > en
            THEN SubSeq(seq, b2 + 1, i)
            ELSE rangeLoop(seq, bg, en, i + 1, curr + w, b2, f2)

runeSliceWidthRange(seq, bg, en) ==
    IF bg = en THEN <<>> ELSE rangeLoop(seq, bg, en, 0, 0, 0, FALSE)

overflowsMut(lastWidth, w, mw) == lastWidth + w >= mw

\* the test that stops the backward scan of runeSliceWidthLastRange
overflows(lastWidth, w, mw) == lastWidth + w > mw

\* i is the 0-based index of the code; rs[i+1:] is SubSeq(rs, i + 2, Len(rs))
RECURSIVE lastRangeLoop(_, _, _, _)
lastRangeLoop(seq, mw, i, lastWidth) ==
    IF i < 0 THEN seq
    ELSE LET w == RuneWidth(seq[i + 1])
         IN IF overflows(lastWidth, w, mw)
            THEN SubSeq(seq, i + 2, Len(seq))
            ELSE lastRangeLoop(seq, mw, i - 1, lastWidth + w)

runeSliceWidthLastRange(seq, mw) == lastRangeLoop(seq, mw, Len(seq) - 1, 0)

Runes == {CHA, CHB, WIDE, COMBINING}

\* a sequence ten columns wide
TenColumns == <<WIDE, CHA, WIDE, CHB, WIDE, CHA, CHB>>

RuneSeqs == Strs(Runes, MaxRunes) \cup {TenColumns}

InitWidth ==
    /\ pc = "start"
    /\ rs \in RuneSeqs
    /\ beg = 0 /\ end = 0 /\ maxWidth = 0 /\ width = 0 /\ out = <<>>
    /\ IdleText /\ IdleRead /\ IdleNat

RuneSliceWidth ==
    /\ pc = "start"
    /\ width' = runeSliceWidth(rs)
    /\ pc' = "measured"
    /\ UNCHANGED <<rs, beg, end, maxWidth, out, textVars, readVars, natVars>>

\* runeSliceWidthRange(rs, 0, runeSliceWidth(rs))
RuneSliceWidthRangeFull ==
    /\ pc = "measured"
    /\ beg' = 0 /\ end' = width
    /\ out' = runeSliceWidthRange(rs, 0, width)
    /\ pc' = "full"
    /\ UNCHANGED <<rs, maxWidth, width, textVars, readVars, natVars>>

RuneSliceWidthRange ==
    /\ pc = "start"
    /\ \E bg \in 0..MaxCol : \E en \in 0..MaxCol :
          /\ beg' = bg /\ end' = en
          /\ out' = runeSliceWidthRange(rs, bg, en)
    /\ pc' = "range"
    /\ UNCHANGED <<rs, maxWidth, width, textVars, readVars, natVars>>

RuneSliceWidthLastRange ==
    /\ pc = "start"
    /\ \E mw \in 0..MaxCol :
          /\ maxWidth' = mw
          /\ out' = runeSliceWidthLastRange(rs, mw)
    /\ pc' = "last"
    /\ UNCHANGED <<rs, beg, end, width, textVars, readVars, natVars>>

NextWidth ==
    RuneSliceWidth \/ RuneSliceWidthRangeFull \/ RuneSliceWidthRange
    \/ RuneSliceWidthLastRange

SpecWidth == InitWidth /\ [][NextWidth]_vars

(* ---- reference reading by columns ---- *)
\* the columns taken by the runes of seq at positions lo..hi
ColumnsOf(seq, lo, hi) ==
    Cardinality({i \in lo..hi : RuneWidth(seq[i]) = 1})
    + 2 * Cardinality({i \in lo..hi : RuneWidth(seq[i]) = 2})

\* the column at which rune i of seq starts
StartCol(seq, i) == ColumnsOf(seq, 1, i - 1)

Suffix(seq, n) == SubSeq(seq, Len(seq) - n + 1, Len(seq))

\* C5: runeSliceWidthRange(rs, 0, runeSliceWidth(rs)) returns rs unchanged,
\* for every rs, zero-width runes and the empty sequence included.
C5_FullRangeIsIdentity ==
    pc = "full" => out = rs

\* C6: runeSliceWidthLastRange(rs, maxWidth) is the longest suffix of rs that
\* is at most maxWidth columns wide: all of rs, or a suffix whose extension by
\* the rune before it is wider than maxWidth.
C6_LongestSuffix ==
    pc = "last" =>
        \E n \in 0..Len(rs) :
            /\ out = Suffix(rs, n)
            /\ ColumnsOf(out, 1, Len(out)) <= maxWidth
            /\ (n = Len(rs)
                \/ ColumnsOf(Suffix(rs, n + 1), 1, n + 1) > maxWidth)
            /\ \A m \in (n + 1)..Len(rs) :
                  ColumnsOf(Suffix(rs, m), 1, m) > maxWidth

C6_Witness ==
    /\ pc = "last"
    /\ rs = TenColumns
    /\ maxWidth = 3
    /\ out = <<CHA, CHB>>

C6_WitnessZeroWidth ==
    /\ pc = "last"
    /\ out # rs /\ out # <<>>
    /\ out[1] = COMBINING
    /\ ColumnsOf(out, 1, Len(out)) = maxWidth

\* C7: for 0 <= beg < end, runeSliceWidthRange(rs, beg, end) is the run of rs
\* from the first rune that starts at a column >= beg up to the first rune
\* that starts at column end or would reach past end; every rune returned lies
\* in [beg, end), the result is at most end - beg wide, and it is empty when
\* no rune starts at a column >= beg.
C7_RangeWithinColumns ==
    (pc = "range" /\ beg < end) =>
        LET n      == Len(rs)
            begins == {i \in 1..n : StartCol(rs, i) >= beg}
            stops  == {i \in 1..n : \/ StartCol(rs, i) = end
                                    \/ StartCol(rs, i) + RuneWidth(rs[i]) > end}
            first  == IF begins = {} THEN n + 1 ELSE SortedSeq(begins)[1]
            stop   == IF stops = {} THEN n + 1 ELSE SortedSeq(stops)[1]
        IN /\ out = SubSeq(rs, first, stop - 1)
           /\ ColumnsOf(out, 1, Len(out)) <= end - beg
           /\ (begins = {} => out = <<>>)

====
